---- MODULE Spec2Model ----
(***************************************************************************)
(* lnnblog-sync: one-way synchronisation of a source MediaWiki into a      *)
(* target MediaWiki.  The model follows the current script                 *)
(* (src/unnamed/part_000, lines 1-524): the paginated list fetcher         *)
(* apiQueryListAll, the change reducer over the `pages` Map, the exclusion *)
(* filter, the derived move list and the run from source login to the      *)
(* watermark write.                                                        *)
(*                                                                         *)
(* Three specifications share the definitions:                             *)
(*   SpecReducer  the reducer, the exclusion filter and the move list fed  *)
(*                with every change-event sequence a wiki can log;         *)
(*   SpecList     apiQueryListAll against a server holding a fixed list of *)
(*                response pages;                                          *)
(*   Spec         one whole run of the script.                             *)
(***************************************************************************)
EXTENDS Integers, Sequences, FiniteSets, TLC

\* ------------------------------------------------------------------ bounds
MaxChanges == 3
MaxRunChanges == 2
MaxPages == 3
MaxItem == 2
MaxInfo == 2
ListLimit == 1

Titles == {"A", "B", "C"}
\* the order in which the server lists category members
TitleOrder == <<"A", "B", "C">>
\* an absent title: `oldTitle` undefined, `logparams.target_title` of a non-move
NoTitle == ""

VARIABLES
  pc,            \* position of the script (or of the function under study)
  err,           \* the uncaught exception: its kind and the step that threw it
  exists,        \* source wiki: titles that hold a page
  trail,         \* source wiki: titles the page now at a title has held, oldest first
  revs,          \* source wiki: minor flags of the new/edit events of the page now at a title
  leftover,      \* source wiki: the page at a title is the redirect a move left behind
  edited,        \* log history: the title has received a new/edit event
  cancelled,     \* log history: new/edit, then delete, nothing on the title since
  nonMinorSince, \* log history: non-minor new/edit (here or carried here), no delete since
  lastEv,        \* log history: the event logged last
  existed,       \* source wiki: titles that held a page when the window opened
  onlyMoves,     \* log history: every event so far is a move onto a free title
  recreated,     \* log history: a restore or an upload has been logged
  rclog,         \* source wiki: the recent-changes log of the window
  category,      \* source wiki: members of the no-sync category
  serverPages,   \* SpecList: the response pages the server holds
  clock,         \* source server clock (curtimestamp)
  requests,      \* every API request issued so far, in order
  data,          \* apiQueryListAll: the response received last
  results,       \* apiQueryListAll: the accumulated query
  excludedPages, changes, syncTime, pages, moves, xmlExport, csrftoken,
  fileIds,       \* titles of the uploads to transfer (keys of the fileIds Map)
  haveSourceLogin, \* SOURCE_USERNAME and SOURCE_PASSWORD are both set
  lastsync,      \* content of the file ~lastsync
  moveIdx,       \* number of pairs of `moves` the move loop has gone through
  missing,       \* the first required setting found unset, if any
  caught,        \* the move failures given to console.error, in order
  lastAnswer,    \* what the server answered to the API call made last
  i              \* number of change events the reducer has consumed

vars == <<pc, err, exists, trail, revs, leftover, edited, cancelled, nonMinorSince,
          lastEv, rclog, category, serverPages, clock, requests, data, results,
          excludedPages, changes, syncTime, pages, moves, xmlExport, csrftoken,
          haveSourceLogin, lastsync, moveIdx, i, existed, onlyMoves, missing,
          caught, lastAnswer, fileIds, recreated>>

wikiVars == <<exists, trail, revs, leftover, edited, cancelled, nonMinorSince, lastEv,
              existed, onlyMoves, recreated>>
runVars == <<missing, caught, lastAnswer>>
progVars == <<excludedPages, changes, syncTime, pages, fileIds, moves, xmlExport, csrftoken,
              haveSourceLogin, lastsync, moveIdx>>
listVars == <<data, results>>

\* ------------------------------------------------------------ change events
Ev(type, title, minor, logtype, logaction, target, sup) ==
  [type |-> type, title |-> title, minor |-> minor, logtype |-> logtype,
   logaction |-> logaction, target_title |-> target, suppressredirect |-> sup]

NoEvent == Ev("none", NoTitle, FALSE, "", "", NoTitle, FALSE)

NewEditEvents ==
  {Ev(ty, t, m, "", "", NoTitle, FALSE) : ty \in {"new", "edit"}, t \in Titles, m \in BOOLEAN}
DeleteEvents == {Ev("log", t, FALSE, "delete", "delete", NoTitle, FALSE) : t \in Titles}
RestoreEvents == {Ev("log", t, FALSE, "delete", "restore", NoTitle, FALSE) : t \in Titles}
MoveEvents ==
  {Ev("log", t, FALSE, "move", "move", u, s) : t \in Titles, u \in Titles, s \in BOOLEAN}
UploadEvents == {Ev("log", t, FALSE, "upload", "upload", NoTitle, FALSE) : t \in Titles}

IsNewEdit(ev) == ev.type \in {"new", "edit"}
IsDelete(ev) == ev.type = "log" /\ ev.logtype = "delete" /\ ev.logaction = "delete"
IsRestore(ev) == ev.type = "log" /\ ev.logtype = "delete" /\ ev.logaction = "restore"
IsMove(ev) == ev.type = "log" /\ ev.logtype = "move"
IsUpload(ev) == ev.type = "log" /\ ev.logtype = "upload"

\* ------------------------------------------------- the pages Map (a JS Map)
\* A Map keeps insertion order: a sequence of entries, one per key.
Entry(title, oldTitle, minor) == [title |-> title, oldTitle |-> oldTitle, minor |-> minor]

MapKeys(m) == {m[k].title : k \in 1..Len(m)}
MapHas(m, t) == t \in MapKeys(m)
MapIndex(m, t) == CHOOSE k \in 1..Len(m) : m[k].title = t
MapGet(m, t) == m[MapIndex(m, t)]
MapDelete(m, t) == SelectSeq(m, LAMBDA e : e.title # t)
\* (changed) set always adds an entry
MapSetAppends(m, t, oldTitle, minor) == Append(m, Entry(t, oldTitle, minor))

\* set on a present key keeps the key's position, on a new key appends
MapSet(m, t, oldTitle, minor) ==
  IF MapHas(m, t)
  THEN [m EXCEPT ![MapIndex(m, t)] = Entry(t, oldTitle, minor)]
  ELSE Append(m, Entry(t, oldTitle, minor))

\* ---------------------------------------------------------- change reducer
\* (changed) new/edit: the event's minor flag replaces the entry's
ReduceNewEditOverwrite(m, ev) ==
  IF MapHas(m, ev.title)
  THEN MapSet(m, ev.title, MapGet(m, ev.title).oldTitle, ev.minor)
  ELSE MapSet(m, ev.title, NoTitle, ev.minor)

\* new/edit: AND the minor flag into the entry, or insert {minor}
ReduceNewEdit(m, ev) ==
  IF MapHas(m, ev.title)
  THEN MapSet(m, ev.title, MapGet(m, ev.title).oldTitle,
              MapGet(m, ev.title).minor /\ ev.minor)
  ELSE MapSet(m, ev.title, NoTitle, ev.minor)

\* (changed) log delete/delete: the title is marked as pending
ReduceDeleteMarks(m, ev) == MapSet(m, ev.title, NoTitle, FALSE)

\* (changed) log delete/delete: the entry stays
ReduceDeleteKeeps(m, ev) == m

\* log delete/delete
ReduceDelete(m, ev) == MapDelete(m, ev.title)

\* the entry a move relocates: pages.get(title) ?? { oldTitle: title, minor: true }
MovedInfo(m, ev) ==
  IF MapHas(m, ev.title)
  THEN MapGet(m, ev.title)
  ELSE Entry(ev.title, ev.title, TRUE)

\* (changed) the old title keeps its entry even when the redirect is suppressed
ReduceMoveKeepsSource(m, ev) ==
  LET info == MovedInfo(m, ev)
  IN MapSet(m, ev.target_title, info.oldTitle, info.minor)

\* log move
ReduceMove(m, ev) ==
  LET info == MovedInfo(m, ev)
      m1 == MapSet(m, ev.target_title, info.oldTitle, info.minor)
  IN IF ev.suppressredirect
     THEN MapDelete(m1, ev.title)
     ELSE MapSet(m1, ev.title, NoTitle, FALSE)

\* one iteration of the loop over `changes`
ReduceChange(m, ev) ==
  IF IsNewEdit(ev) THEN ReduceNewEdit(m, ev)
  ELSE IF ev.type = "log"
       THEN IF IsDelete(ev) THEN ReduceDelete(m, ev)
            ELSE IF ev.logtype = "move" THEN ReduceMove(m, ev)
            ELSE m   \* upload: fileIds.set is commented out; other logs: no branch
       ELSE m

RECURSIVE ReduceAll(_, _)
ReduceAll(m, evs) ==
  IF evs = <<>> THEN m ELSE ReduceAll(ReduceChange(m, Head(evs)), Tail(evs))

\* (changed) the upload branch records the file
ReduceUploadSets(f, ev) == f \cup {ev.title}

\* log upload: //fileIds.set(title, pageid) is commented out
ReduceUpload(f, ev) == f

\* what one iteration of the loop does to fileIds
ReduceFiles(f, ev) == IF IsUpload(ev) THEN ReduceUpload(f, ev) ELSE f

RECURSIVE ReduceAllFiles(_, _)
ReduceAllFiles(f, evs) ==
  IF evs = <<>> THEN f ELSE ReduceAllFiles(ReduceFiles(f, Head(evs)), Tail(evs))

\* ---------------------------------------------------------- exclusion filter
\* (changed) only the current title is looked up
IsExcludedByTitleOnly(e, ex) == e.title \in ex

IsExcluded(e, ex) == e.title \in ex \/ (e.oldTitle # NoTitle /\ e.oldTitle \in ex)

\* (changed) after a delete the iterator passes over the entry that followed
RECURSIVE FilterFromSkipping(_, _, _)
FilterFromSkipping(m, ex, k) ==
  IF k > Len(m) THEN m
  ELSE IF IsExcluded(m[k], ex)
       THEN FilterFromSkipping(MapDelete(m, m[k].title), ex, k + 1)
       ELSE FilterFromSkipping(m, ex, k + 1)

\* for (... of pages) with pages.delete inside: a Map iterator is live, after a
\* delete it goes on with the entry that followed the deleted one
RECURSIVE FilterFrom(_, _, _)
FilterFrom(m, ex, k) ==
  IF k > Len(m) THEN m
  ELSE IF IsExcluded(m[k], ex)
       THEN FilterFrom(MapDelete(m, m[k].title), ex, k)
       ELSE FilterFrom(m, ex, k + 1)

RemoveExcluded(m, ex) == FilterFrom(m, ex, 1)

\* for (const [title] of fileIds) if (excludedPages.has(title)) fileIds.delete(title)
RemoveExcludedFiles(f, ex) == f \ ex

\* ---------------------------------------------------------------- move list
\* (changed) every entry with an oldTitle counts as moved
IsMovedAnyOldTitle(e) == e.oldTitle # NoTitle

\* oldTitle && title !== oldTitle
IsMoved(e) == e.oldTitle # NoTitle /\ e.title # e.oldTitle

RECURSIVE MovesFrom(_, _)
MovesFrom(m, k) ==
  IF k > Len(m) THEN <<>>
  ELSE IF IsMoved(m[k])
       THEN <<(<<m[k].oldTitle, m[k].title>>)>> \o MovesFrom(m, k + 1)
       ELSE MovesFrom(m, k + 1)

Moves(m) == MovesFrom(m, 1)

MovePairs(m) == {Moves(m)[k] : k \in 1..Len(Moves(m))}

\* (changed) only the first key is asked for
ExportTitlesFirst(m) == IF m = <<>> THEN <<>> ELSE <<m[1].title>>

\* titles: [...pages.keys()] of the export request
ExportTitles(m) == [k \in 1..Len(m) |-> m[k].title]

\* ------------------------------------------------------------- source wiki
\* What the source wiki lets happen next, given the titles that hold a page.
WikiAllows(ev) ==
  \/ ev.type = "new" /\ ev.title \notin exists
  \/ ev.type = "edit" /\ ev.title \in exists
  \/ IsDelete(ev) /\ ev.title \in exists
  \/ IsRestore(ev) /\ ev.title \notin exists
  \/ IsMove(ev) /\ ev.title \in exists /\ ev.target_title # ev.title
  \/ IsUpload(ev)

\* The wiki after the event, and what the log now says about each title.
WikiApply(ev) ==
  LET t == ev.title
      u == ev.target_title
  IN
  /\ lastEv' = ev
  /\ existed' = existed
  /\ onlyMoves' = (onlyMoves /\ IsMove(ev) /\ ev.target_title \notin exists)
  /\ recreated' = (recreated \/ IsRestore(ev) \/ IsUpload(ev))
  /\ exists' =
       IF ev.type = "new" \/ IsRestore(ev) \/ IsUpload(ev) THEN exists \cup {t}
       ELSE IF IsDelete(ev) THEN exists \ {t}
       ELSE IF IsMove(ev)
            THEN (IF ev.suppressredirect THEN exists \ {t} ELSE exists) \cup {u}
            ELSE exists
  /\ trail' =
       IF ev.type = "new" \/ IsRestore(ev) \/ IsDelete(ev)
       THEN [trail EXCEPT ![t] = <<t>>]
       ELSE IF IsMove(ev)
            THEN [trail EXCEPT ![u] = Append(trail[t], u), ![t] = <<t>>]
            ELSE trail
  /\ revs' =
       IF ev.type = "new" THEN [revs EXCEPT ![t] = {ev.minor}]
       ELSE IF ev.type = "edit" THEN [revs EXCEPT ![t] = revs[t] \cup {ev.minor}]
       ELSE IF IsDelete(ev) \/ IsRestore(ev) THEN [revs EXCEPT ![t] = {}]
       ELSE IF IsMove(ev) THEN [revs EXCEPT ![u] = revs[t], ![t] = {}]
       ELSE revs
  /\ leftover' =
       IF ev.type = "new" \/ IsRestore(ev) \/ IsDelete(ev)
       THEN [leftover EXCEPT ![t] = FALSE]
       ELSE IF IsMove(ev)
            THEN [leftover EXCEPT ![u] = leftover[t], ![t] = ~ev.suppressredirect]
            ELSE leftover
  /\ edited' = IF IsNewEdit(ev) THEN [edited EXCEPT ![t] = TRUE] ELSE edited
  /\ cancelled' =
       IF IsDelete(ev) THEN [cancelled EXCEPT ![t] = edited[t]]
       ELSE IF IsNewEdit(ev) \/ IsRestore(ev) \/ IsUpload(ev)
            THEN [cancelled EXCEPT ![t] = FALSE]
       ELSE IF IsMove(ev) THEN [cancelled EXCEPT ![u] = FALSE]
       ELSE cancelled
  /\ nonMinorSince' =
       IF IsNewEdit(ev) THEN [nonMinorSince EXCEPT ![t] = nonMinorSince[t] \/ ~ev.minor]
       ELSE IF IsDelete(ev) THEN [nonMinorSince EXCEPT ![t] = FALSE]
       ELSE IF IsMove(ev)
            THEN [nonMinorSince EXCEPT ![u] = nonMinorSince[u] \/ nonMinorSince[t]]
            ELSE nonMinorSince

\* ------------------------------------------------------------ API responses
NoCont == 0
Resp(hasQuery, items, info, cont, ts) ==
  [defined |-> TRUE, hasQuery |-> hasQuery, items |-> items, info |-> info,
   cont |-> cont, curtimestamp |-> ts]
\* `let data` before the first response, `let results` before the first query
NoData ==
  [defined |-> FALSE, hasQuery |-> FALSE, items |-> <<>>, info |-> 0,
   cont |-> NoCont, curtimestamp |-> 0]
NoResults == [defined |-> FALSE, items |-> <<>>, info |-> 0]

\* ------------------------------------------------------------ API requests
\* One logged API call: the site, what is asked, the continuation parameter
\* (list queries), from/to (moves), the token, the titles (export), the source
\* server's clock when it answered and whether the answer carried `query`.
Req(site, action, cont, from, to, token, titles, at, gotQuery) ==
  [site |-> site, action |-> action, cont |-> cont, from |-> from, to |-> to,
   token |-> token, titles |-> titles, at |-> at, gotQuery |-> gotQuery]

\* a list query, and whether its response carried `query`
ListReq(list, cont, at, gotQuery) ==
  Req("source", list, cont, NoTitle, NoTitle, 0, <<>>, at, gotQuery)
\* any other call
PlainReq(site, action) == Req(site, action, NoCont, NoTitle, NoTitle, 0, <<>>, 0, FALSE)

\* the uncaught exception that ended the run
NoErr == [kind |-> "", at |-> ""]
Err(kind, at) == [kind |-> kind, at |-> at]

\* the answer to an API call: what the body carries ("ok": data only,
\* "warnings", "errors", "transport": no body) and, for a login, whether
\* login.result is "Success"
Answer(body, success) == [body |-> body, success |-> success]
NoAnswer == Answer("", TRUE)

\* a setting of the environment that is not missing
NoSetting == ""

\* --------------------------------------------------------- apiQueryListAll
\* (changed) the continuation of the previous response is not sent
ListContinueDropped(d) == NoCont

\* ...data?.continue : the continuation parameters of the previous response
ListContinue(d) == IF d.defined THEN d.cont ELSE NoCont

\* (changed) a later page's array replaces the accumulated one
ListMergeOverwrite(res, d) ==
  IF ~res.defined
  THEN [defined |-> TRUE, items |-> d.items, info |-> d.info]
  ELSE [defined |-> TRUE, items |-> d.items,
        info |-> IF d.info # 0 THEN d.info ELSE res.info]

\* results = data.query for the first query, afterwards arrays are appended to
\* and other values overwritten, key by key (info = 0: the key is absent)
ListMerge(res, d) ==
  IF ~res.defined
  THEN [defined |-> TRUE, items |-> d.items, info |-> d.info]
  ELSE [defined |-> TRUE, items |-> res.items \o d.items,
        info |-> IF d.info # 0 THEN d.info ELSE res.info]

\* while (typeof data.continue?.continue === "string")
ListLoops(d) == d.cont # NoCont

\* data = await api(...)
ListData(old, resp) == resp

\* (changed) only the accumulated query is returned, not the last response
ListReturnQueryOnly(d, res) ==
  [NoData EXCEPT !.defined = TRUE, !.hasQuery = res.defined, !.items = res.items,
                 !.info = res.info]

\* data.query = results; return data
ListReturn(d, res) ==
  [d EXCEPT !.hasQuery = res.defined, !.items = res.items, !.info = res.info]

\* one iteration of the do-while: <<data, results, loops again>>
ListIteration(d, res, resp) ==
  LET nd == ListData(d, resp)
  IN IF ~nd.hasQuery THEN <<nd, res, FALSE>>
     ELSE <<nd, ListMerge(res, nd), ListLoops(nd)>>

\* ------------------------------------------------------------------- Init
InitWikiLog ==
  /\ trail = [t \in Titles |-> <<t>>]
  /\ revs = [t \in Titles |-> {}]
  /\ leftover = [t \in Titles |-> FALSE]
  /\ edited = [t \in Titles |-> FALSE]
  /\ cancelled = [t \in Titles |-> FALSE]
  /\ nonMinorSince = [t \in Titles |-> FALSE]
  /\ lastEv = NoEvent
  /\ existed = exists
  /\ onlyMoves = TRUE
  /\ recreated = FALSE

InitProgram ==
  /\ err = NoErr
  /\ requests = <<>>
  /\ data = NoData
  /\ results = NoResults
  /\ excludedPages = {}
  /\ changes = <<>>
  /\ syncTime = 0
  /\ pages = <<>>
  /\ fileIds = {}
  /\ moves = <<>>
  /\ xmlExport = <<>>
  /\ csrftoken = 0
  /\ lastsync = 0
  /\ moveIdx = 0
  /\ i = 0
  /\ missing = NoSetting
  /\ caught = <<>>
  /\ lastAnswer = NoAnswer

\* ------------------------------------------------------------ SpecReducer
\* The reducer, the exclusion filter and the move list as functions of their
\* inputs: the change events are the ones the wiki logs one after the other,
\* the exclusion set is any set of titles.
InitReducer ==
  /\ pc = "reduce"
  /\ exists \in SUBSET Titles
  /\ InitWikiLog
  /\ InitProgram
  /\ haveSourceLogin = FALSE
  /\ rclog = <<>>
  /\ category = {}
  /\ serverPages = <<>>
  /\ clock = 1

Fold(ev) ==
  /\ pc = "reduce"
  /\ i < MaxChanges
  /\ WikiAllows(ev)
  /\ WikiApply(ev)
  /\ pages' = ReduceChange(pages, ev)
  /\ fileIds' = ReduceFiles(fileIds, ev)
  /\ i' = i + 1
  /\ UNCHANGED <<pc, err, rclog, category, serverPages, clock, requests, data, results,
                 excludedPages, changes, syncTime, moves, xmlExport, csrftoken,
                 haveSourceLogin, lastsync, moveIdx, runVars>>

FoldNewEdit == \E ev \in NewEditEvents : Fold(ev)
FoldDelete == \E ev \in DeleteEvents : Fold(ev)
FoldRestore == \E ev \in RestoreEvents : Fold(ev)
FoldMove == \E ev \in MoveEvents : Fold(ev)
FoldUpload == \E ev \in UploadEvents : Fold(ev)

\* the exclusion filter, then the move list of what is left
FilterStep ==
  /\ pc = "reduce"
  /\ \E ex \in SUBSET Titles :
       /\ excludedPages' = ex
       /\ pages' = RemoveExcluded(pages, ex)
       /\ fileIds' = RemoveExcludedFiles(fileIds, ex)
       /\ moves' = Moves(RemoveExcluded(pages, ex))
  /\ pc' = "todo"
  /\ UNCHANGED <<err, wikiVars, rclog, category, serverPages, clock, requests, data,
                 results, changes, syncTime, xmlExport, csrftoken,
                 haveSourceLogin, lastsync, moveIdx, i, runVars>>

NextReducer ==
  \/ FoldNewEdit
  \/ FoldDelete
  \/ FoldRestore
  \/ FoldMove
  \/ FoldUpload
  \/ FilterStep

SpecReducer == InitReducer /\ [][NextReducer]_vars

\* --------------------------------------------------------------- SpecList
\* apiQueryListAll against a server that holds 1..MaxPages response pages:
\* every page but the last carries a continuation token (page k carries k, and
\* a request that sends k is answered with page k + 1), a page may lack `query`.
PageBodies ==
  {[hasQuery |-> FALSE, items |-> <<>>, info |-> 0]} \cup
  {[hasQuery |-> TRUE, items |-> it, info |-> f] :
     it \in {<<>>} \cup {<<x>> : x \in 1..MaxItem}, f \in 0..MaxInfo}

\* the n response pages with the bodies b[1], ..., b[n]
ServerPagesOf(b, n) ==
  [k \in 1..n |->
     Resp(b[k].hasQuery, b[k].items, b[k].info, IF k < n THEN k ELSE NoCont, 0)]

InitList ==
  /\ pc = "list"
  /\ \E n \in 1..MaxPages : \E b \in [1..n -> PageBodies] :
       serverPages = ServerPagesOf(b, n)
  /\ exists = {}
  /\ InitWikiLog
  /\ InitProgram
  /\ haveSourceLogin = FALSE
  /\ rclog = <<>>
  /\ category = {}
  /\ clock = 1

\* the server's answer to a list request
ServerPage(cont) == [serverPages[cont + 1] EXCEPT !.curtimestamp = clock]

ListRequest ==
  /\ pc = "list"
  /\ LET cont == ListContinue(data)
         it == ListIteration(data, results, ServerPage(cont))
     IN /\ requests' = Append(requests, ListReq("list", cont, clock, ServerPage(cont).hasQuery))
        /\ data' = it[1]
        /\ results' = it[2]
        /\ pc' = IF it[3] THEN "list" ELSE "listEnd"
  /\ clock' = clock + 1
  /\ UNCHANGED <<err, wikiVars, rclog, category, serverPages, progVars, i, runVars>>

ListEnd ==
  /\ pc = "listEnd"
  /\ data' = ListReturn(data, results)
  /\ pc' = "listDone"
  /\ UNCHANGED <<err, wikiVars, rclog, category, serverPages, clock, requests, results,
                 progVars, i, runVars>>

NextList ==
  \/ ListRequest
  \/ ListEnd

SpecList == InitList /\ [][NextList]_vars

\* the first page that lacks `query` or lacks a continuation token
StopIndex(sp) ==
  CHOOSE k \in 1..Len(sp) :
    /\ ~sp[k].hasQuery \/ sp[k].cont = NoCont
    /\ \A j \in 1..(k - 1) : sp[j].hasQuery /\ sp[j].cont # NoCont

RECURSIVE ConcatItems(_, _)
ConcatItems(sp, n) == IF n = 0 THEN <<>> ELSE ConcatItems(sp, n - 1) \o sp[n].items

RECURSIVE LastInfo(_, _)
LastInfo(sp, n) ==
  IF n = 0 THEN 0 ELSE IF sp[n].info # 0 THEN sp[n].info ELSE LastInfo(sp, n - 1)

\* each request carries the continuation of the response before it
ContinuationsChain ==
  \A k \in 1..Len(requests) :
    requests[k].cont = IF k = 1 THEN NoCont ELSE serverPages[k - 1].cont

\* C7 as stated: against a server with n pages the function ends after exactly
\* n requests, one per page in order, each carrying the continuation of the
\* previous response, and it stops only on a response without continuation.
C7_OneRequestPerPage ==
  /\ ContinuationsChain
  /\ Len(requests) <= Len(serverPages)
  /\ pc = "listEnd" => data.cont = NoCont
  /\ pc = "listDone" => Len(requests) = Len(serverPages)

\* C7 amended: the function ends after exactly m requests, m the first page that
\* lacks `query` or lacks a continuation token (m = n when every page before the
\* last carries `query`); it stops only on such a response.
C7_RequestsUpToStop ==
  /\ ContinuationsChain
  /\ Len(requests) <= StopIndex(serverPages)
  /\ pc = "list" => Len(requests) < StopIndex(serverPages)
  /\ pc = "listEnd" => (data.cont = NoCont \/ ~data.hasQuery)
  /\ pc = "listDone" => Len(requests) = StopIndex(serverPages)

C7_Witness ==
  /\ pc = "listDone"
  /\ Len(serverPages) = 3
  /\ \A k \in 1..3 : serverPages[k].hasQuery
  /\ Len(requests) = 3
  /\ requests[3].cont = 2

\* C8 as stated: the returned array is the concatenation of the arrays of pages
\* 1..n in page order, a non-array value is the one of the last page that
\* supplied it.
C8_ConcatOfAllPages ==
  pc = "listDone" =>
    /\ data.items = ConcatItems(serverPages, Len(serverPages))
    /\ data.info = LastInfo(serverPages, Len(serverPages))

\* C8 amended: the same over pages 1..m, m the first page that lacks `query` or
\* lacks a continuation token.
C8_ConcatUpToStop ==
  pc = "listDone" =>
    /\ data.items = ConcatItems(serverPages, StopIndex(serverPages))
    /\ data.info = LastInfo(serverPages, StopIndex(serverPages))

C8_Witness ==
  /\ pc = "listDone"
  /\ Len(serverPages) = 3
  /\ data.items = <<1, 2, 1>>
  /\ serverPages[1].info = 1 /\ serverPages[2].info = 2 /\ serverPages[3].info = 0
  /\ data.info = 2

\* ------------------------------------------------------------------ claims
TitlesIn(ps) == {p[1] : p \in ps} \cup {p[2] : p \in ps}
SeqSet(q) == {q[k] : k \in 1..Len(q)}
AllMinor(t) == \A m \in revs[t] : m

\* C1 as stated: a title that received a new/edit event and a later delete, and
\* that no later event re-created, edited or moved a page onto, has after the
\* reduction no pending entry, is in no move pair and in no export title list.
C1_CancelledInNoPair ==
  pc = "todo" =>
    \A t \in Titles : cancelled[t] =>
      /\ ~MapHas(pages, t)
      /\ t \notin TitlesIn(SeqSet(moves))
      /\ t \notin SeqSet(ExportTitles(pages))

\* C1 amended: such a title has no pending entry, is the destination of no move
\* pair and is in no export title list (it can be the source of a pair: the
\* page moved away from it earlier, the redirect left behind was edited and
\* deleted).
C1_CancelledHasNoEntry ==
  pc = "todo" =>
    \A t \in Titles : cancelled[t] =>
      /\ ~MapHas(pages, t)
      /\ \A p \in SeqSet(moves) : p[2] # t
      /\ t \notin SeqSet(ExportTitles(pages))

C1_Witness ==
  /\ pc = "todo"
  /\ excludedPages = {}
  /\ cancelled["A"]
  /\ IsDelete(lastEv) /\ lastEv.title = "A"
  /\ revs["B"] = {TRUE}
  /\ MapKeys(pages) = {"B"}

\* C2 as stated: after a chain A -> B -> C of moves of one page (no delete of it
\* in between, whatever new/edit events come with it), the move list has exactly
\* one pair for the page, (A, C), and neither (A, B) nor (B, C).
C2_ChainGivesOnePair ==
  (pc = "todo" /\ excludedPages = {}) =>
    \A c \in Titles :
      (Len(trail[c]) = 3 /\ Cardinality(SeqSet(trail[c])) = 3) =>
        LET a == trail[c][1]
            b == trail[c][2]
        IN /\ <<a, c>> \in SeqSet(moves)
           /\ Cardinality({p \in SeqSet(moves) : p[2] = c}) = 1
           /\ <<a, b>> \notin SeqSet(moves)
           /\ <<b, c>> \notin SeqSet(moves)

\* C3 as stated: right after a move A -> B that suppressed the redirect, of a
\* page that was not moved before and has new/edit events in the window, B holds
\* the entry with oldTitle A and the minor flag accumulated for A, A has no
\* entry and the move list has the pair (A, B).
C3_EditedThenMoved ==
  (/\ pc = "reduce"
   /\ IsMove(lastEv)
   /\ lastEv.suppressredirect
   /\ trail[lastEv.target_title] = <<lastEv.title, lastEv.target_title>>
   /\ revs[lastEv.target_title] # {}
   /\ ~leftover[lastEv.target_title]) =>
    LET a == lastEv.title
        b == lastEv.target_title
    IN /\ MapHas(pages, b)
       /\ MapGet(pages, b).oldTitle = a
       /\ MapGet(pages, b).minor = AllMinor(b)
       /\ ~MapHas(pages, a)
       /\ <<a, b>> \in MovePairs(pages)

C5_NonMinorTitleStaysNonMinor ==
  \A k \in 1..Len(pages) :
    /\ nonMinorSince[pages[k].title] => ~pages[k].minor
    /\ pages[k].minor => AllMinor(pages[k].title)

\* C5 amended: the minor flag of a pending entry is the AND of the minor flags
\* of the new/edit events of the page the entry stands for, and false for the
\* redirect a move left behind.
C5_MinorIsAnd ==
  \A k \in 1..Len(pages) :
    pages[k].minor = (~leftover[pages[k].title] /\ AllMinor(pages[k].title))

C5_Witness ==
  /\ pc = "reduce"
  /\ trail["B"] = <<"A", "B">>
  /\ revs["B"] = {TRUE, FALSE}
  /\ MapHas(pages, "B")
  /\ ~MapGet(pages, "B").minor
  /\ IsMove(lastEv)

\* C16: right after the reducer has processed a move A -> B: with the redirect
\* suppressed A has no entry, otherwise A has a fresh entry {minor: false}
\* without oldTitle; B holds the oldTitle and minor flag of the entry A had
\* before (oldTitle = A, minor = true when A had none), whatever B held.
C16_MoveRelocates ==
  [][(pc = "reduce" /\ i' = i + 1 /\ IsMove(lastEv')) =>
       LET A == lastEv'.title
           B == lastEv'.target_title
       IN /\ IF lastEv'.suppressredirect
             THEN ~MapHas(pages', A)
             ELSE MapHas(pages', A) /\ MapGet(pages', A) = Entry(A, NoTitle, FALSE)
          /\ MapHas(pages', B)
          /\ MapGet(pages', B) =
               IF MapHas(pages, A)
               THEN Entry(B, MapGet(pages, A).oldTitle, MapGet(pages, A).minor)
               ELSE Entry(B, A, TRUE)
          /\ Cardinality(MapKeys(pages')) = Len(pages')]_vars

\* a move with the redirect suppressed has just relocated an entry A had onto
\* a title that had an entry of its own
C16_Witness ==
  /\ pc = "reduce"
  /\ IsMove(lastEv)
  /\ lastEv.suppressredirect
  /\ edited[lastEv.title]
  /\ edited[lastEv.target_title]
  /\ ~MapHas(pages, lastEv.title)
  /\ MapHas(pages, lastEv.target_title)
  /\ MapGet(pages, lastEv.target_title).oldTitle = NoTitle
  /\ Len(pages) = 1

\* ---- the target wiki under the move list
\* The target as a map from title to the page held (named by the title the
\* page had when the window opened), NoTitle for a free title.
TargetAtStart == [t \in Titles |-> IF t \in existed THEN t ELSE NoTitle]

\* a move with noredirect: it succeeds when the source title holds a page and
\* the destination is free, a failed one changes nothing
TargetMove(tgt, pair) ==
  IF tgt[pair[1]] # NoTitle /\ tgt[pair[2]] = NoTitle
  THEN [tgt EXCEPT ![pair[2]] = tgt[pair[1]], ![pair[1]] = NoTitle]
  ELSE tgt

RECURSIVE TargetAfter(_, _, _)
TargetAfter(tgt, mv, k) ==
  IF k > Len(mv) THEN tgt ELSE TargetAfter(TargetMove(tgt, mv[k]), mv, k + 1)

\* titles whose page was moved during the window and is no leftover redirect
MovedHere == {u \in exists : ~leftover[u] /\ Len(trail[u]) > 1}

\* C15 as stated, for windows of move events only: with the target's titles
\* equal to the source's when the window opens, the move list applied in order
\* leaves every moved page at the title it has on the source.
C15_MovesLineUp ==
  (pc = "todo" /\ excludedPages = {} /\ onlyMoves) =>
    \A u \in MovedHere : TargetAfter(TargetAtStart, moves, 1)[u] = trail[u][1]

\* titles whose page was moved away during the window and is back where it
\* started
BackHome == {u \in exists : Len(trail[u]) > 1 /\ trail[u][1] = u}

\* C22: a page moved away from its title and back again within the window gets
\* no move pair (its title is the destination of none), and no pair of the
\* move list has the same title as source and destination.
C22_NoPairForRoundTrip ==
  pc = "todo" =>
    /\ \A k \in 1..Len(moves) : moves[k][1] # moves[k][2]
    /\ \A u \in BackHome : \A k \in 1..Len(moves) : moves[k][2] # u

\* the log is move A -> B, move B -> A and the entry of the page names its own
\* title as oldTitle
C22_Witness ==
  /\ pc = "todo"
  /\ i = 2
  /\ IsMove(lastEv)
  /\ trail[lastEv.target_title] = <<lastEv.target_title, lastEv.title, lastEv.target_title>>
  /\ MapHas(pages, lastEv.target_title)
  /\ MapGet(pages, lastEv.target_title).oldTitle = lastEv.target_title
  /\ moves = <<>>

\* C23 as stated: no title is the source of two pairs of the move list and no
\* title is the destination of two pairs.
C23_PairsUnique ==
  pc = "todo" =>
    \A k \in 1..Len(moves) : \A j \in 1..Len(moves) :
      k # j => (moves[k][1] # moves[j][1] /\ moves[k][2] # moves[j][2])

\* C23 amended: no title is the destination of two pairs; no title is the
\* source of two pairs as long as the log has no restore and no upload (events
\* that put a page on a title without giving it a pending entry).
C23_PairsUniqueUnlessRecreated ==
  pc = "todo" =>
    \A k \in 1..Len(moves) : \A j \in 1..Len(moves) :
      k # j => /\ moves[k][2] # moves[j][2]
               /\ ~recreated => moves[k][1] # moves[j][1]

\* two pairs, from a log without restore and upload
C23_Witness ==
  /\ pc = "todo"
  /\ ~recreated
  /\ Len(moves) = 2
  /\ moves[1][1] # moves[2][1]
  /\ moves[1][2] # moves[2][2]
  /\ moves[1][2] = moves[2][1]

\* -------------------------------------------------------------------- Spec
\* One run of the script.  Before it starts the source wiki logs the changes
\* of the window (at most MaxRunChanges); the server hands lists out in pages
\* of ListLimit entries (cmlimit, rclimit).  The window opens on a wiki that
\* holds the pages A and B and has the title C free; the no-sync category is
\* empty, holds A, or holds A and C (B is what A is, by symmetry); the log of
\* the run has non-minor new and edit events, delete and move events on every
\* title and uploads of C; minor edits and the log events the reducer has no
\* branch for are covered by SpecReducer.

\* what an API call can come back with: data, data with warnings, an `errors`
\* array (APIError), or no response at all (AxiosError)
ApiOutcomes == {"ok", "warnings", "errors", "transport"}
Min(a, b) == IF a < b THEN a ELSE b

CategoryCandidates == {{}, {"A"}, {"A", "C"}}

\* members of the category in the order the server lists them
CategoryList == SelectSeq(TitleOrder, LAMBDA t : t \in category)

\* the page of `list` after offset `cont`; the server may leave `query` out
\* (hasQuery = FALSE) only when the page has no entry
ListChunk(list, cont) == SubSeq(list, cont + 1, Min(cont + ListLimit, Len(list)))
ListChunkCont(list, cont) ==
  IF cont + ListLimit < Len(list) THEN cont + ListLimit ELSE NoCont
ServerListPage(list, cont, hasQuery) ==
  Resp(hasQuery, ListChunk(list, cont), 0, ListChunkCont(list, cont), clock)

Init ==
  /\ pc = "wiki"
  /\ exists = {"A", "B"}
  /\ InitWikiLog
  /\ InitProgram
  /\ haveSourceLogin \in BOOLEAN
  /\ category \in CategoryCandidates
  /\ rclog = <<>>
  /\ serverPages = <<>>
  /\ clock = 1

\* ---- the window: the wiki logs a change
WikiLogs(ev) ==
  /\ pc = "wiki"
  /\ Len(rclog) < MaxRunChanges
  /\ WikiAllows(ev)
  /\ WikiApply(ev)
  /\ rclog' = Append(rclog, ev)
  /\ UNCHANGED <<pc, err, category, serverPages, clock, requests, listVars, progVars, i,
                 runVars>>

WikiNewEdit == \E ev \in {e \in NewEditEvents : ~e.minor} : WikiLogs(ev)
WikiDelete == \E ev \in DeleteEvents : WikiLogs(ev)
WikiMove == \E ev \in MoveEvents : WikiLogs(ev)
WikiUpload == \E ev \in {e \in UploadEvents : e.title = "C"} : WikiLogs(ev)

\* ---- the script starts: the settings are read and checked one after the
\* other, the first required one that is unset throws; source login only with
\* both source credentials
RequiredSettings ==
  {"SOURCE_APIPHP", "TARGET_APIPHP", "TARGET_USERNAME", "TARGET_PASSWORD", "LAST_SYNC"}

\* (changed) the target password is not asked for
ConfigErrorNoPassword(m) == m \in RequiredSettings \ {"TARGET_PASSWORD"}

\* if (!x) throw new Error("x not specified")
ConfigError(m) == m \in RequiredSettings

Start ==
  /\ pc = "wiki"
  /\ \E m \in RequiredSettings \cup {NoSetting} :
       /\ missing' = m
       /\ IF ConfigError(m)
          THEN pc' = "failed" /\ err' = Err("Error", "config")
          ELSE /\ pc' = IF haveSourceLogin THEN "sourceLoginToken" ELSE "excluded"
               /\ err' = err
  /\ UNCHANGED <<wikiVars, rclog, category, serverPages, clock, requests,
                 listVars, progVars, i, caught, lastAnswer>>

\* (changed) a body with warnings is thrown like one with errors
ApiThrowsOnWarnings(out) == out \in {"warnings", "errors", "transport"}

\* (changed) a transport error is not thrown
ApiThrowsOnlyErrors(out) == out = "errors"

\* api(): throws on a transport error and on an `errors` array
ApiThrows(out) == out \in {"errors", "transport"}
ApiErrKind(out) == IF out = "errors" THEN "APIError" ELSE "AxiosError"

\* an api() call that is no list query and returns nothing the model keeps:
\* it is logged, and it throws on `errors`, on a transport error and on a
\* failed assertion
ApiStep(at, site, action, asserted, next) ==
  /\ pc = at
  /\ \E out \in ApiOutcomes, holds \in BOOLEAN :
       /\ (~asserted \/ out \in {"errors", "transport"}) => holds
       /\ requests' = Append(requests, PlainReq(site, action))
       /\ lastAnswer' = Answer(out, holds)
       /\ IF ApiThrows(out)
          THEN pc' = "failed" /\ err' = Err(ApiErrKind(out), at)
          ELSE IF ~holds
               THEN pc' = "failed" /\ err' = Err("APIError", at)
               ELSE pc' = next /\ err' = err
  /\ clock' = IF site = "source" THEN clock + 1 ELSE clock
  /\ UNCHANGED <<wikiVars, rclog, category, serverPages, listVars, progVars, i,
                 missing, caught>>

\* apiLogin(sourceApiPhp, ...): the login token, then the login
SourceLoginToken == ApiStep("sourceLoginToken", "source", "logintoken", FALSE, "sourceLogin")
SourceLogin == ApiStep("sourceLogin", "source", "login", TRUE, "excluded")

\* ---- one iteration of apiQueryListAll for the excluded page list; the last
\* one returns, and the caller destructures query.categorymembers into the Set
ExcludedRequest ==
  /\ pc = "excluded"
  /\ \E out \in ApiOutcomes, hasQuery \in BOOLEAN :
       LET cont == ListContinue(data)
           resp == ServerListPage(CategoryList, cont, hasQuery)
           it == ListIteration(data, results, resp)
           ret == ListReturn(it[1], it[2])
       IN
       /\ hasQuery \/ ListChunk(CategoryList, cont) = <<>>
       /\ requests' = Append(requests,
                        ListReq("categorymembers", cont, clock, ~ApiThrows(out) /\ hasQuery))
       /\ lastAnswer' = Answer(out, TRUE)
       /\ IF ApiThrows(out)
          THEN /\ pc' = "failed" /\ err' = Err(ApiErrKind(out), "excluded")
               /\ UNCHANGED <<data, results, excludedPages>>
          ELSE IF it[3]
          THEN /\ pc' = "excluded" /\ err' = err
               /\ data' = it[1] /\ results' = it[2]
               /\ UNCHANGED excludedPages
          ELSE IF ~ret.hasQuery
          THEN \* const { query: { categorymembers } } of a query that is undefined
               /\ pc' = "failed" /\ err' = Err("TypeError", "excluded")
               /\ data' = ret /\ results' = it[2]
               /\ UNCHANGED excludedPages
          ELSE /\ pc' = "changes" /\ err' = err
               /\ excludedPages' = SeqSet(ret.items)
               /\ data' = NoData /\ results' = NoResults
  /\ clock' = clock + 1
  /\ UNCHANGED <<wikiVars, rclog, category, serverPages, changes, syncTime, pages, fileIds,
                 moves, xmlExport, csrftoken, haveSourceLogin, lastsync, moveIdx, i,
                 missing, caught>>

\* ---- one iteration of apiQueryListAll for the change log; the last one
\* returns, and the caller takes query.recentchanges and curtimestamp
ChangesRequest ==
  /\ pc = "changes"
  /\ \E out \in ApiOutcomes, hasQuery \in BOOLEAN :
       LET cont == ListContinue(data)
           resp == ServerListPage(rclog, cont, hasQuery)
           it == ListIteration(data, results, resp)
           ret == ListReturn(it[1], it[2])
       IN
       /\ hasQuery \/ ListChunk(rclog, cont) = <<>>
       /\ requests' = Append(requests,
                        ListReq("recentchanges", cont, clock, ~ApiThrows(out) /\ hasQuery))
       /\ lastAnswer' = Answer(out, TRUE)
       /\ IF ApiThrows(out)
          THEN /\ pc' = "failed" /\ err' = Err(ApiErrKind(out), "changes")
               /\ UNCHANGED <<data, results, changes, syncTime>>
          ELSE IF it[3]
          THEN /\ pc' = "changes" /\ err' = err
               /\ data' = it[1] /\ results' = it[2]
               /\ UNCHANGED <<changes, syncTime>>
          ELSE IF ~ret.hasQuery
          THEN \* const { query: { recentchanges } } of a query that is undefined
               /\ pc' = "failed" /\ err' = Err("TypeError", "changes")
               /\ data' = ret /\ results' = it[2]
               /\ UNCHANGED <<changes, syncTime>>
          ELSE /\ pc' = "reduce" /\ err' = err
               /\ changes' = ret.items
               /\ syncTime' = ret.curtimestamp
               /\ data' = NoData /\ results' = NoResults
  /\ clock' = clock + 1
  /\ UNCHANGED <<wikiVars, rclog, category, serverPages, excludedPages, pages, fileIds,
                 moves, xmlExport, csrftoken, haveSourceLogin, lastsync, moveIdx, i,
                 missing, caught>>

\* ---- the loop over `changes`, then the exclusion filter on both maps
Reconcile ==
  /\ pc = "reduce"
  /\ pages' = RemoveExcluded(ReduceAll(<<>>, changes), excludedPages)
  /\ fileIds' = RemoveExcludedFiles(ReduceAllFiles({}, changes), excludedPages)
  /\ i' = Len(changes)
  /\ pc' = "todo"
  /\ UNCHANGED <<err, wikiVars, rclog, category, serverPages, clock, requests, listVars,
                 excludedPages, changes, syncTime, moves, xmlExport, csrftoken,
                 haveSourceLogin, lastsync, moveIdx, runVars>>

\* (changed) the script never takes the early exit
NothingToDoNever(m) == FALSE

\* !pages.size
NothingToDo(m) == Len(m) = 0

\* "Nothing to do today, bye": write the watermark and exit(0)
NothingToDoExit ==
  /\ pc = "todo"
  /\ NothingToDo(pages) /\ fileIds = {}
  /\ lastsync' = syncTime
  /\ pc' = "done"
  /\ UNCHANGED <<err, wikiVars, rclog, category, serverPages, clock, requests, listVars,
                 excludedPages, changes, syncTime, pages, fileIds, moves, xmlExport,
                 csrftoken, haveSourceLogin, moveIdx, i, runVars>>

\* the export as the script keeps it: one revision per title, <minor/> taken
\* off where the pending entry says minor = false
PatchedExport(m) ==
  [k \in 1..Len(m) |-> [title |-> m[k].title, minor |-> m[k].minor]]

\* ---- the move list, then the export of all pending titles in one request
Export ==
  /\ pc = "todo"
  /\ ~(NothingToDo(pages) /\ fileIds = {})
  /\ moves' = Moves(pages)
  /\ IF Len(pages) > 0
     THEN \E out \in ApiOutcomes :
            /\ requests' = Append(requests,
                 Req("source", "export", NoCont, NoTitle, NoTitle, 0,
                     ExportTitles(pages), clock, TRUE))
            /\ lastAnswer' = Answer(out, TRUE)
            /\ clock' = clock + 1
            /\ IF ApiThrows(out)
               THEN /\ pc' = "failed" /\ err' = Err(ApiErrKind(out), "export")
                    /\ UNCHANGED xmlExport
               ELSE /\ pc' = "fileurls" /\ err' = err
                    /\ xmlExport' = PatchedExport(pages)
     ELSE /\ pc' = "fileurls"
          /\ UNCHANGED <<requests, clock, err, xmlExport, lastAnswer>>
  /\ UNCHANGED <<wikiVars, rclog, category, serverPages, listVars, excludedPages, changes,
                 syncTime, pages, fileIds, csrftoken, haveSourceLogin, lastsync, moveIdx, i,
                 missing, caught>>

\* ---- if (fileIds.size): the URLs of the uploaded files, in one request
FileUrls ==
  /\ pc = "fileurls"
  /\ IF fileIds # {}
     THEN \E out \in ApiOutcomes :
            /\ requests' = Append(requests, PlainReq("source", "imageinfo"))
            /\ lastAnswer' = Answer(out, TRUE)
            /\ clock' = clock + 1
            /\ IF ApiThrows(out)
               THEN pc' = "failed" /\ err' = Err(ApiErrKind(out), "fileurls")
               ELSE pc' = "targetLoginToken" /\ err' = err
     ELSE /\ pc' = "targetLoginToken"
          /\ UNCHANGED <<requests, clock, err, lastAnswer>>
  /\ UNCHANGED <<wikiVars, rclog, category, serverPages, listVars, progVars, i,
                 missing, caught>>

\* ---- apiLogin(targetApiPhp, ...)
TargetLoginToken == ApiStep("targetLoginToken", "target", "logintoken", FALSE, "targetLogin")
TargetLogin == ApiStep("targetLogin", "target", "login", TRUE, "csrf")

\* ---- the CSRF token; the server issues a token it has not issued before
FetchCsrf ==
  /\ pc = "csrf"
  /\ \E out \in ApiOutcomes :
       /\ requests' = Append(requests, PlainReq("target", "csrftoken"))
       /\ lastAnswer' = Answer(out, TRUE)
       /\ IF ApiThrows(out)
          THEN pc' = "failed" /\ err' = Err(ApiErrKind(out), "csrf") /\ UNCHANGED csrftoken
          ELSE pc' = "moves" /\ err' = err /\ csrftoken' = Len(requests) + 1
  /\ UNCHANGED <<wikiVars, rclog, category, serverPages, clock, listVars, excludedPages,
                 changes, syncTime, pages, fileIds, moves, xmlExport, haveSourceLogin,
                 lastsync, moveIdx, i, missing, caught>>

\* (changed) the pairs are taken from the end of the list
MovePairBackwards(mv, k) == mv[Len(mv) + 1 - k]

\* for (const [from, to] of moves): the k-th pair
MovePair(mv, k) == mv[k]

\* (changed) a failed move is thrown on
CatchMoveRethrows(out) == IF out \in {"errors", "transport"} THEN "failed" ELSE "moves"

\* .catch(console.error): whatever the outcome the loop goes on
CatchMove(out) == "moves"

\* ---- one pair of the move loop; a failed move is caught and logged
MoveRequest ==
  /\ pc = "moves"
  /\ moveIdx < Len(moves)
  /\ \E out \in ApiOutcomes :
       LET pair == MovePair(moves, moveIdx + 1) IN
       /\ requests' = Append(requests,
            Req("target", "move", NoCont, pair[1], pair[2], csrftoken, <<>>, 0, FALSE))
       /\ lastAnswer' = Answer(out, TRUE)
       /\ caught' = IF ApiThrows(out)
                    THEN Append(caught, [kind |-> ApiErrKind(out), from |-> pair[1],
                                         to |-> pair[2]])
                    ELSE caught
       /\ pc' = CatchMove(out)
  /\ moveIdx' = moveIdx + 1
  /\ UNCHANGED <<err, wikiVars, rclog, category, serverPages, clock, listVars,
                 excludedPages, changes, syncTime, pages, fileIds, moves, xmlExport,
                 csrftoken, haveSourceLogin, lastsync, i, missing>>

\* ---- after the move loop: the import of the patched export, if there is one
Import ==
  /\ pc = "moves"
  /\ moveIdx = Len(moves)
  /\ IF xmlExport # <<>>
     THEN \E out \in ApiOutcomes :
            /\ requests' = Append(requests,
                 Req("target", "import", NoCont, NoTitle, NoTitle, csrftoken,
                     ExportTitles(xmlExport), 0, FALSE))
            /\ lastAnswer' = Answer(out, TRUE)
            /\ IF ApiThrows(out)
               THEN pc' = "failed" /\ err' = Err(ApiErrKind(out), "import")
               ELSE pc' = "write" /\ err' = err
     ELSE pc' = "write" /\ UNCHANGED <<requests, err, lastAnswer>>
  /\ UNCHANGED <<wikiVars, rclog, category, serverPages, clock, listVars, progVars, i,
                 missing, caught>>

\* ---- Promise.allSettled([..., writeFile("~lastsync", syncTime)])
WriteWatermark ==
  /\ pc = "write"
  /\ lastsync' = syncTime
  /\ pc' = "done"
  /\ UNCHANGED <<err, wikiVars, rclog, category, serverPages, clock, requests, listVars,
                 excludedPages, changes, syncTime, pages, fileIds, moves, xmlExport,
                 csrftoken, haveSourceLogin, moveIdx, i, runVars>>

Next ==
  \/ WikiNewEdit
  \/ WikiDelete
  \/ WikiMove
  \/ WikiUpload
  \/ Start
  \/ SourceLoginToken
  \/ SourceLogin
  \/ ExcludedRequest
  \/ ChangesRequest
  \/ Reconcile
  \/ NothingToDoExit
  \/ Export
  \/ FileUrls
  \/ TargetLoginToken
  \/ TargetLogin
  \/ FetchCsrf
  \/ MoveRequest
  \/ Import
  \/ WriteWatermark

Spec == Init /\ [][Next]_vars

\* ------------------------------------------------------- claims on the run
\* the run is past the exclusion filter
PastFilter ==
  \/ pc \in {"todo", "done", "fileurls", "targetLoginToken", "targetLogin", "csrf", "moves",
            "write"}
  \/ pc = "failed" /\ err.at \in {"export", "fileurls", "targetLoginToken", "targetLogin",
                                  "csrf", "import"}

RequestsOf(action) == {k \in 1..Len(requests) : requests[k].action = action}
Highest(S) == CHOOSE k \in S : \A j \in S : j <= k
Lowest(S) == CHOOSE k \in S : \A j \in S : k <= j

\* C6: when the pending map is empty after the exclusion filter, the run issues
\* no export request and no request to the target (login, token, move, import)
\* and ends normally, the watermark written.
C6_NothingToDoNoRequests ==
  (PastFilter /\ pages = <<>>) =>
    /\ pc \in {"todo", "done"}
    /\ err = NoErr
    /\ \A k \in 1..Len(requests) :
         requests[k].site = "source" /\ requests[k].action # "export"
    /\ pc = "done" => lastsync = syncTime

C6_Witness ==
  /\ pc = "done"
  /\ rclog = <<Ev("edit", "A", FALSE, "", "", NoTitle, FALSE)>>
  /\ changes = rclog
  /\ excludedPages = {"A"}
  /\ pages = <<>>
  /\ lastsync = syncTime
  /\ lastsync # 0

\* the first response of the fetch arrived and had no `query` key
FirstAnswerLacksQuery(list, at) ==
  /\ RequestsOf(list) # {}
  /\ ~requests[Lowest(RequestsOf(list))].gotQuery
  /\ ~(pc = "failed" /\ err.at = at /\ err.kind \in {"APIError", "AxiosError"}
       /\ Cardinality(RequestsOf(list)) = 1)

\* C9 as stated: when the first response of the exclusion-set fetch or of the
\* change-log fetch has no `query` key, the fetch ends after that one request
\* and the run goes on with zero results instead of ending in an error.
C9_NoQueryMeansNoResults ==
  /\ FirstAnswerLacksQuery("categorymembers", "excluded") =>
       /\ Cardinality(RequestsOf("categorymembers")) = 1
       /\ ~(pc = "failed" /\ err.at = "excluded")
       /\ excludedPages = {}
  /\ FirstAnswerLacksQuery("recentchanges", "changes") =>
       /\ Cardinality(RequestsOf("recentchanges")) = 1
       /\ ~(pc = "failed" /\ err.at = "changes")
       /\ changes = <<>>

\* C10: on every run that ends successfully the watermark in ~lastsync is the
\* curtimestamp of the response to the last change-log request, on the full
\* path and on the nothing-to-do path.
C10_WatermarkIsLastPageTime ==
  pc = "done" =>
    /\ RequestsOf("recentchanges") # {}
    /\ lastsync = requests[Highest(RequestsOf("recentchanges"))].at

C10_Witness ==
  /\ pc = "done"
  /\ Cardinality(RequestsOf("recentchanges")) = 2
  /\ RequestsOf("categorymembers") # {}
  /\ RequestsOf("import") # {}
  /\ lastsync = requests[Highest(RequestsOf("recentchanges"))].at
  /\ lastsync > requests[Lowest(RequestsOf("recentchanges"))].at

\* the request issued last
LastRequest == requests[Len(requests)]
\* two requests ask for the same thing
SameCall(r, q) ==
  /\ r.site = q.site /\ r.action = q.action /\ r.cont = q.cont
  /\ r.from = q.from /\ r.to = q.to
\* the call made last came back with an `errors` array or not at all, and it
\* was not a move
StepFailed ==
  /\ requests # <<>>
  /\ LastRequest.action # "move"
  /\ lastAnswer.body \in {"errors", "transport"}

\* C11: when a step other than a move fails (transport error or API error),
\* the run aborts: the watermark keeps its pre-run value, the failed request
\* is the last one of the run and was issued only once.
C11_FailureAborts ==
  /\ StepFailed =>
       /\ pc = "failed"
       /\ err.kind = (IF lastAnswer.body = "errors" THEN "APIError" ELSE "AxiosError")
  /\ pc = "failed" =>
       /\ lastsync = 0
       /\ \A k \in 1..(Len(requests) - 1) : ~SameCall(requests[k], LastRequest)

C11_Witness ==
  /\ pc = "failed"
  /\ err = Err("AxiosError", "import")
  /\ StepFailed
  /\ RequestsOf("move") # {}
  /\ syncTime # 0
  /\ lastsync = 0

\* C12: no API request is issued unless SOURCE_APIPHP, TARGET_APIPHP,
\* TARGET_USERNAME, TARGET_PASSWORD and the watermark are all set; without
\* source credentials the run goes on, with no login request to the source.
C12_NoRequestWithoutConfig ==
  /\ missing \in {"SOURCE_APIPHP", "TARGET_APIPHP", "TARGET_USERNAME", "TARGET_PASSWORD",
                  "LAST_SYNC"} =>
       requests = <<>> /\ pc = "failed"
  /\ (pc # "wiki" /\ missing = NoSetting /\ ~haveSourceLogin) =>
       /\ \A k \in 1..Len(requests) :
            requests[k].site = "source" => requests[k].action \notin {"logintoken", "login"}
       /\ err.at \notin {"config", "sourceLoginToken", "sourceLogin"}
       /\ pc \notin {"sourceLoginToken", "sourceLogin"}

C12_Witness ==
  /\ pc = "done"
  /\ ~haveSourceLogin
  /\ missing = NoSetting
  /\ requests[1].action = "categorymembers"
  /\ RequestsOf("import") # {}

\* the requests sent to the target, in order
TargetRequests == SelectSeq(requests, LAMBDA r : r.site = "target")

\* C13: on the target the requests of a run are: login token and login, one
\* CSRF token fetch, the moves in move-list order, then at most one import;
\* every move and the import carry the token of that one fetch.
C13_TargetOrder ==
  LET T == TargetRequests IN
  \A k \in 1..Len(T) :
    /\ k = 1 => T[k].action = "logintoken"
    /\ k = 2 => T[k].action = "login"
    /\ k = 3 => T[k].action = "csrftoken"
    /\ k > 3 =>
         /\ T[k].action \in {"move", "import"}
         /\ T[k].token = csrftoken /\ csrftoken # 0
         /\ T[k].action = "import" => k = Len(T) /\ k = Len(moves) + 4
         /\ T[k].action = "move" =>
              /\ k - 3 <= Len(moves)
              /\ T[k].from = moves[k - 3][1]
              /\ T[k].to = moves[k - 3][2]

C13_Witness ==
  /\ pc = "done"
  /\ Len(moves) = 2
  /\ moves[1] # moves[2]
  /\ Len(TargetRequests) = 6
  /\ TargetRequests[6].action = "import"

\* the move requests sent so far, as pairs
MovesSent ==
  LET M == SelectSeq(requests, LAMBDA r : r.action = "move")
  IN [k \in 1..Len(M) |-> <<M[k].from, M[k].to>>]

\* the move loop is over
MovesOver == pc \in {"write", "done"} \/ (pc = "failed" /\ err.at = "import")

\* C14: a failed move does not abort the run: every pair of the move list is
\* requested exactly once, in order, whatever earlier moves came back with;
\* the import is still sent, and when it succeeds the watermark is advanced.
C14_MoveFailureTolerated ==
  /\ pc = "moves" => MovesSent = SubSeq(moves, 1, moveIdx)
  /\ MovesOver =>
       /\ MovesSent = moves
       /\ xmlExport # <<>> => RequestsOf("import") # {}
  /\ pc = "done" => lastsync = syncTime
  /\ caught # <<>> => (pc \in {"moves", "write", "done"} \/ (pc = "failed" /\ err.at = "import"))

C14_Witness ==
  /\ pc = "done"
  /\ Len(moves) = 2
  /\ Len(caught) >= 1
  /\ caught[1].from = moves[1][1]
  /\ MovesSent = moves
  /\ RequestsOf("import") # {}
  /\ lastsync = syncTime
  /\ lastsync # 0

\* the pending map the reducer builds from the fetched changes
Reduced == ReduceAll(<<>>, changes)

\* C17: the exclusion filter removes exactly the entries whose title or
\* oldTitle is in the exclusion set and leaves the others as they were, in
\* their order, also when consecutive entries are deleted during the
\* iteration; the exclusion set does not change once it has been fetched.
C17_FilterExact ==
  [][/\ pc = "reduce" =>
          pages' = SelectSeq(Reduced, LAMBDA e :
                     ~(e.title \in excludedPages
                       \/ (e.oldTitle # NoTitle /\ e.oldTitle \in excludedPages)))
     /\ pc # "excluded" => excludedPages' = excludedPages]_vars

\* two entries in a row were deleted and the one after them survived
C17_Witness ==
  /\ pc = "todo"
  /\ Len(Reduced) = 3
  /\ IsExcluded(Reduced[1], excludedPages)
  /\ IsExcluded(Reduced[2], excludedPages)
  /\ pages = <<Reduced[3]>>

\* the run is past the export step
PastExport ==
  \/ pc \in {"fileurls", "targetLoginToken", "targetLogin", "csrf", "moves", "write", "done"}
  \/ pc = "failed" /\ err.at \in {"export", "fileurls", "targetLoginToken", "targetLogin",
                                  "csrf", "import"}

\* C18: with a non-empty pending map after the filter the run sends exactly
\* one export request, to the source, and the titles it names are exactly the
\* keys of the pending map, each once.
C18_OneExportOfAllKeys ==
  /\ Cardinality(RequestsOf("export")) <= 1
  /\ (PastExport /\ pages # <<>>) =>
       /\ Cardinality(RequestsOf("export")) = 1
       /\ LET r == requests[Lowest(RequestsOf("export"))]
          IN /\ r.site = "source"
             /\ SeqSet(r.titles) = MapKeys(pages)
             /\ Len(r.titles) = Cardinality(MapKeys(pages))

C18_Witness ==
  /\ pc = "done"
  /\ Len(Reduced) = 3
  /\ Len(pages) = 2
  /\ Cardinality(RequestsOf("export")) = 1
  /\ requests[Lowest(RequestsOf("export"))].titles = <<pages[1].title, pages[2].title>>

\* C19: an answer with an `errors` array makes the call fail with APIError
\* (caught and logged in the move loop, ending the run anywhere else), and so
\* does a login answer whose result is not "Success"; an answer with warnings
\* only never makes the call fail: the run goes on as it does for the same
\* answer without warnings.
C19_ErrorsFailWarningsDoNot ==
  /\ (requests # <<>> /\ lastAnswer.body = "errors") =>
       IF LastRequest.action = "move"
       THEN caught # <<>> /\ caught[Len(caught)].kind = "APIError"
       ELSE pc = "failed" /\ err.kind = "APIError"
  /\ ~lastAnswer.success =>
       /\ LastRequest.action = "login"
       /\ pc = "failed"
       /\ err \in {Err("APIError", "sourceLogin"), Err("APIError", "targetLogin")}
  /\ (lastAnswer.body = "warnings" /\ lastAnswer.success) =>
       /\ err.kind \notin {"APIError", "AxiosError"}
       /\ pc = "failed" => (err.kind = "TypeError" /\ ~LastRequest.gotQuery)

\* the import came back with warnings and the run ended normally
C19_Witness ==
  /\ pc = "done"
  /\ lastAnswer = Answer("warnings", TRUE)
  /\ LastRequest.action = "import"
  /\ lastsync = syncTime
  /\ lastsync # 0

\* C20: an upload log event leaves the pending map as it was, fileIds stays
\* empty, and no run ever asks the source for file URLs or uploads a file to
\* the target.
C20_NoFileTransfer ==
  /\ \A k \in 1..Len(changes) :
       IsUpload(changes[k]) =>
         ReduceAll(<<>>, SubSeq(changes, 1, k)) = ReduceAll(<<>>, SubSeq(changes, 1, k - 1))
  /\ fileIds = {}
  /\ \A k \in 1..Len(requests) : requests[k].action \notin {"imageinfo", "upload"}

\* a run that fetched an edit followed by an upload went through to the end
C20_Witness ==
  /\ pc = "done"
  /\ Len(changes) = 2
  /\ IsNewEdit(changes[1])
  /\ IsUpload(changes[2])
  /\ changes[2].title \notin excludedPages
  /\ Len(pages) = 1
  /\ RequestsOf("import") # {}

\* C21: the sync is one-way: move and import requests go to the target only,
\* the source gets only login requests and reads (category members, recent
\* changes, export), and a change log made of delete events leads to no write
\* request and no request to the target at all.
C21_OneWay ==
  /\ \A k \in 1..Len(requests) :
       /\ requests[k].action \in {"move", "import"} => requests[k].site = "target"
       /\ requests[k].site = "source" =>
            requests[k].action \in {"logintoken", "login", "categorymembers",
                                    "recentchanges", "export"}
       /\ requests[k].action # "delete"
  /\ (changes # <<>> /\ \A j \in 1..Len(changes) : IsDelete(changes[j])) =>
       \A k \in 1..Len(requests) :
         requests[k].site = "source" /\ requests[k].action # "export"

\* a run whose change log is the deletion of both pages has ended normally
C21_Witness ==
  /\ pc = "done"
  /\ Len(changes) = 2
  /\ IsDelete(changes[1]) /\ IsDelete(changes[2])
  /\ RequestsOf("recentchanges") # {}
  /\ lastsync = syncTime
  /\ lastsync # 0

====
